---- MODULE Spec2Model ----
(***************************************************************************)
(* Model of cli/create_images/validate.py: the command-line surface of the *)
(* polaroid image decorator.                                               *)
(*                                                                         *)
(*   parse_args           argparse parsing, flag sanitising, result tuple  *)
(*   sanitize_input_args  conflict checks over the parsed flag mapping     *)
(*   validate_paths       existence check of every path, in list order     *)
(*                                                                         *)
(* Spec      runs parse_args on every command line and environment of the  *)
(*           bounded input space.                                          *)
(* SpecPaths runs validate_paths on every bounded path list and file       *)
(*           system.                                                       *)
(***************************************************************************)
EXTENDS Integers, Sequences, FiniteSets, TLC

VARIABLES
    environ,      \* POLAROID_PATH in os.environ: None (unset) or Some(string)
    argv,         \* the command line: the flags given and the positionals
    pc,           \* position inside parse_args
    args,         \* vars(parser.parse_args()): None before parsing
    sanitized,    \* (edge_size, aspect_ratio) returned by sanitize_input_args
    result,       \* the tuple parse_args returns
    stderr,       \* the message of the error exit, None while running
    exit_status,  \* the process exit status, None while running
    img_paths,    \* validate_paths: its argument
    fs,           \* validate_paths: what each Path is on disk
    vpc,          \* validate_paths: position
    vi,           \* validate_paths: index of the next list element
    valid_paths,  \* validate_paths: the list being collected
    checked       \* validate_paths: the Path objects tested so far, in order

cliVars  == <<environ, argv, pc, args, sanitized, result>>
pathVars == <<img_paths, fs, vpc, vi, valid_paths, checked>>
vars     == <<environ, argv, pc, args, sanitized, result, stderr, exit_status,
              img_paths, fs, vpc, vi, valid_paths, checked>>

(***************************************************************************)
(* Bounds of the input space.                                              *)
(***************************************************************************)
MaxPositionals == 2
MaxPaths == 2

(***************************************************************************)
(* Python's Optional: None is the empty tuple, a value v is <<v>>.         *)
(***************************************************************************)
None == <<>>
Some(v) == <<v>>

RECURSIVE SeqsUpTo(_, _)
SeqsUpTo(S, n) ==
    IF n = 0 THEN {<<>>}
    ELSE LET shorter == SeqsUpTo(S, n - 1)
         IN  shorter \cup {Append(s, x) : s \in {t \in shorter : Len(t) = n - 1}, x \in S}

(***************************************************************************)
(* Argument names (the dest of every registered argument), by the helper   *)
(* that registers them.                                                    *)
(***************************************************************************)
IMAGE_PATHS == "IMAGE_PATHS"
EQUAL_BORDERS == "EQUAL_BORDERS"
INSTA_OPTIMISED == "INSTA_OPTIMISED"
DISABLE_BORDERS == "DISABLE_BORDERS"
XS_BORDERS == "XS_BORDERS"
SM_BORDERS == "SM_BORDERS"
MD_BORDERS == "MD_BORDERS"
LG_BORDERS == "LG_BORDERS"
XL_BORDERS == "XL_BORDERS"
RATIO_3_2 == "RATIO_3_2"
RATIO_5_4 == "RATIO_5_4"
RATIO_16_9 == "RATIO_16_9"
RATIO_1_1 == "RATIO_1_1"

add_equal_border_flag == <<EQUAL_BORDERS>>
add_instagram_optimised_flag == <<INSTA_OPTIMISED>>
add_edge_size_flags ==
    <<DISABLE_BORDERS, XS_BORDERS, SM_BORDERS, MD_BORDERS, LG_BORDERS, XL_BORDERS>>
add_aspect_ratio_flags == <<RATIO_3_2, RATIO_5_4, RATIO_16_9>>

Range(s) == {s[i] : i \in 1..Len(s)}

SizeFlags == Range(add_edge_size_flags)
RatioFlags == Range(add_aspect_ratio_flags)

\* A mis-ordered registration: the aspect-ratio flags before the size flags.
ArgKeysRatioFirst ==
    <<IMAGE_PATHS>> \o add_equal_border_flag \o add_aspect_ratio_flags
        \o add_edge_size_flags \o add_instagram_optimised_flag

\* The keys of vars(namespace), in the order argparse sets the defaults:
\* the order of registration.
ArgKeys ==
    <<IMAGE_PATHS>> \o add_equal_border_flag \o add_edge_size_flags
        \o add_aspect_ratio_flags \o add_instagram_optimised_flag

FlagKeys == Range(ArgKeys) \ {IMAGE_PATHS}

(***************************************************************************)
(* The constants module.  Its maps hold the six size flags and the three   *)
(* aspect-ratio flags (plus the 1:1 default); the mapped values are        *)
(* distinct border widths and AspectRatio objects.                         *)
(***************************************************************************)
EDGE_MAP ==
    (DISABLE_BORDERS :> 0) @@ (XS_BORDERS :> 1) @@ (SM_BORDERS :> 2)
        @@ (MD_BORDERS :> 3) @@ (LG_BORDERS :> 4) @@ (XL_BORDERS :> 5)

AspectRatio(w, h) == [width |-> w, height |-> h]

ASPECT_RATIO_MAP ==
    (RATIO_1_1 :> AspectRatio(1, 1)) @@ (RATIO_3_2 :> AspectRatio(3, 2))
        @@ (RATIO_5_4 :> AspectRatio(5, 4)) @@ (RATIO_16_9 :> AspectRatio(16, 9))

TOO_MANY_SIZE_FLAGS == "TOO_MANY_SIZE_FLAGS"
TOO_MANY_ASPECT_RATIO_FLAGS == "TOO_MANY_ASPECT_RATIO_FLAGS"
EQUAL_BORDERS_WITH_ASPECT_RATIO == "EQUAL_BORDERS_WITH_ASPECT_RATIO"
INVALID_PATHS_PROVIDED == "INVALID_PATHS_PROVIDED"
\* argparse's own message when a required positional is missing
ARGUMENTS_REQUIRED == "the following arguments are required"

\* Python truth value of an Optional[AspectRatio]: None is false, an
\* AspectRatio instance is true.
TruthyRatio(r) == r # None
\* Python truth value of an Optional[float]: None and 0 are false.
TruthyNumber(x) == x # None /\ x[1] # 0

(***************************************************************************)
(* sanitize_input_args                                                     *)
(***************************************************************************)
NoError(st) == st.error = None

\* A size branch that lets the last size flag win instead of failing.
SizeBranchLastWins(a, key, st) ==
    IF key \in DOMAIN EDGE_MAP /\ a[key]
    THEN [st EXCEPT !.edge_size = Some(EDGE_MAP[key])]
    ELSE st

\* Lines 181-186: the first if of the loop body.
SizeBranch(a, key, st) ==
    IF key \in DOMAIN EDGE_MAP /\ a[key]
    THEN IF st.edge_size = None
         THEN [st EXCEPT !.edge_size = Some(EDGE_MAP[key])]
         ELSE [st EXCEPT !.error = Some(TOO_MANY_SIZE_FLAGS)]
    ELSE st

\* A ratio branch that lets the last aspect-ratio flag win instead of failing.
RatioBranchLastWins(a, key, st, even_borders) ==
    IF key \in DOMAIN ASPECT_RATIO_MAP /\ a[key]
    THEN IF even_borders
         THEN [st EXCEPT !.error = Some(EQUAL_BORDERS_WITH_ASPECT_RATIO)]
         ELSE [st EXCEPT !.aspect_ratio = Some(ASPECT_RATIO_MAP[key])]
    ELSE st

\* A ratio branch without the equal-borders test.
RatioBranchIgnoreEqual(a, key, st, even_borders) ==
    IF key \in DOMAIN ASPECT_RATIO_MAP /\ a[key]
    THEN IF st.aspect_ratio = None
         THEN [st EXCEPT !.aspect_ratio = Some(ASPECT_RATIO_MAP[key])]
         ELSE [st EXCEPT !.error = Some(TOO_MANY_ASPECT_RATIO_FLAGS)]
    ELSE st

\* Lines 187-194: the second if of the loop body.
RatioBranch(a, key, st, even_borders) ==
    IF key \in DOMAIN ASPECT_RATIO_MAP /\ a[key]
    THEN IF even_borders
         THEN [st EXCEPT !.error = Some(EQUAL_BORDERS_WITH_ASPECT_RATIO)]
         ELSE IF st.aspect_ratio = None
              THEN [st EXCEPT !.aspect_ratio = Some(ASPECT_RATIO_MAP[key])]
              ELSE [st EXCEPT !.error = Some(TOO_MANY_ASPECT_RATIO_FLAGS)]
    ELSE st

\* Lines 180-194: for key in args, from the i-th key on.  parser.error
\* exits the process, so the first error ends the scan.
RECURSIVE SanitizeLoop(_, _, _, _, _)
SanitizeLoop(a, keys, i, st, even_borders) ==
    IF i > Len(keys) THEN st
    ELSE LET s1 == SizeBranch(a, keys[i], st)
         IN  IF ~NoError(s1) THEN s1
             ELSE LET s2 == RatioBranch(a, keys[i], s1, even_borders)
                  IN  IF ~NoError(s2) THEN s2
                      ELSE SanitizeLoop(a, keys, i + 1, s2, even_borders)

\* A default that is applied whenever equal-borders is not set.
DefaultRatioAlways(st, even_borders) ==
    IF ~even_borders
    THEN [st EXCEPT !.aspect_ratio = Some(ASPECT_RATIO_MAP[RATIO_1_1])]
    ELSE st

\* Lines 196-197: the 1:1 default.
DefaultRatio(st, even_borders) ==
    IF ~TruthyRatio(st.aspect_ratio) /\ ~even_borders
    THEN [st EXCEPT !.aspect_ratio = Some(ASPECT_RATIO_MAP[RATIO_1_1])]
    ELSE st

\* Lines 175-199.  The result holds error = Some(message) when the scan
\* ended in parser.error, and the returned pair otherwise.
sanitize_input_args(a) ==
    LET even_borders == IF a[EQUAL_BORDERS] THEN TRUE ELSE FALSE
        st0 == [edge_size |-> None, aspect_ratio |-> None, error |-> None]
        st1 == SanitizeLoop(a, ArgKeys, 1, st0, even_borders)
    IN  IF NoError(st1) THEN DefaultRatio(st1, even_borders) ELSE st1

(***************************************************************************)
(* parse_args                                                              *)
(***************************************************************************)
PositionalStrings == {"a.jpg", "b.jpg"}
EnvironValues == {None, Some(""), Some("/tmp/photos")}

\* Line 20: os.environ.get(constants.POLAROID_PATH, "")
default_path == IF environ = None THEN "" ELSE environ[1]

\* Line 28
nargs == IF default_path = "" THEN "+" ELSE "*"

\* The mapping argparse builds: every flag is a store_true flag, the
\* positional is the list given or, when none is given under "*", the
\* default [default_path].
ParsedArgs ==
    [k \in Range(ArgKeys) |->
        IF k = IMAGE_PATHS
        THEN IF argv.positionals = <<>> THEN <<default_path>> ELSE argv.positionals
        ELSE k \in argv.flags]

\* A positional that is always optional.
ArgparseParseAlwaysOptional ==
    /\ pc = "start"
    /\ args' = Some(ParsedArgs)
    /\ pc' = "parsed"
    /\ UNCHANGED <<environ, argv, sanitized, result, stderr, exit_status>>
    /\ UNCHANGED pathVars

\* Lines 20-37: parser.parse_args().
ArgparseParse ==
    /\ pc = "start"
    /\ IF nargs = "+" /\ argv.positionals = <<>>
       THEN /\ pc' = "exit"
            /\ stderr' = Some(ARGUMENTS_REQUIRED)
            /\ exit_status' = Some(2)
            /\ UNCHANGED args
       ELSE /\ args' = Some(ParsedArgs)
            /\ pc' = "parsed"
            /\ UNCHANGED <<stderr, exit_status>>
    /\ UNCHANGED <<environ, argv, sanitized, result>>
    /\ UNCHANGED pathVars

\* Line 39: the call of sanitize_input_args.
SanitizeInputArgs ==
    /\ pc = "parsed"
    /\ LET r == sanitize_input_args(args[1])
       IN  IF NoError(r)
           THEN /\ sanitized' = Some(<<r.edge_size, r.aspect_ratio>>)
                /\ pc' = "sanitized"
                /\ UNCHANGED <<stderr, exit_status>>
           ELSE /\ pc' = "exit"
                /\ stderr' = r.error
                /\ exit_status' = Some(2)
                /\ UNCHANGED sanitized
    /\ UNCHANGED <<environ, argv, args, result>>
    /\ UNCHANGED pathVars

\* An edge size default chosen by truth value instead of "is not None".
EdgeSizeOrDefaultTruthy(edge_size) ==
    IF TruthyNumber(edge_size) THEN edge_size[1] ELSE EDGE_MAP[MD_BORDERS]

\* Lines 42-44
EdgeSizeOrDefault(edge_size) ==
    IF edge_size # None THEN edge_size[1] ELSE EDGE_MAP[MD_BORDERS]

\* A result that drops the instagram flag.
InputArgsNoInsta(edge_size, aspect_ratio, a) ==
    [EDGE_SIZE |-> EdgeSizeOrDefault(edge_size),
     ASPECT_RATIO |-> aspect_ratio,
     INSTA_OPTIMISED |-> FALSE]

\* Lines 41-47
InputArgs(edge_size, aspect_ratio, a) ==
    [EDGE_SIZE |-> EdgeSizeOrDefault(edge_size),
     ASPECT_RATIO |-> aspect_ratio,
     INSTA_OPTIMISED |-> a[INSTA_OPTIMISED]]

\* Lines 41-49: the return of parse_args.
ReturnInputArgs ==
    /\ pc = "sanitized"
    /\ result' = Some(<<args[1][IMAGE_PATHS],
                        InputArgs(sanitized[1][1], sanitized[1][2], args[1])>>)
    /\ pc' = "returned"
    /\ UNCHANGED <<environ, argv, args, sanitized, stderr, exit_status>>
    /\ UNCHANGED pathVars

(***************************************************************************)
(* validate_paths                                                          *)
(***************************************************************************)
PathStrings == {"exists.jpg", "./exists.jpg", "photos", "missing.jpg", ""}

\* pathlib.Path(s): a leading "./" is dropped and the empty string is ".".
Path(s) ==
    [path |-> CASE s = "" -> "."
                [] s = "./exists.jpg" -> "exists.jpg"
                [] OTHER -> s]

PathObjects == {Path(s) : s \in PathStrings}
Kinds == {"file", "dir", "missing"}

is_file(p) == fs[p] = "file"
is_dir(p) == fs[p] = "dir"

\* Line 215: the test that rejects a path.
Invalid(p) == ~is_file(p) /\ ~is_dir(p)

\* A loop body that skips an invalid path instead of exiting.
ValidatePathsStepSkip ==
    /\ vpc = "loop"
    /\ vi <= Len(img_paths)
    /\ LET check_path == Path(img_paths[vi])
       IN  /\ checked' = Append(checked, check_path)
           /\ valid_paths' = IF Invalid(check_path) THEN valid_paths
                             ELSE Append(valid_paths, check_path)
           /\ vi' = vi + 1
           /\ UNCHANGED <<vpc, stderr, exit_status>>
    /\ UNCHANGED <<img_paths, fs>>
    /\ UNCHANGED cliVars

\* A loop body that collects the path string instead of the Path object.
ValidatePathsStepRaw ==
    /\ vpc = "loop"
    /\ vi <= Len(img_paths)
    /\ LET check_path == Path(img_paths[vi])
       IN  /\ checked' = Append(checked, check_path)
           /\ IF Invalid(check_path)
              THEN /\ vpc' = "exit"
                   /\ stderr' = Some(INVALID_PATHS_PROVIDED)
                   /\ exit_status' = Some(1)
                   /\ UNCHANGED <<vi, valid_paths>>
              ELSE /\ valid_paths' = Append(valid_paths, [path |-> img_paths[vi]])
                   /\ vi' = vi + 1
                   /\ UNCHANGED <<vpc, stderr, exit_status>>
    /\ UNCHANGED <<img_paths, fs>>
    /\ UNCHANGED cliVars

\* Lines 213-217: one iteration of the loop.  sys.exit(message) prints the
\* message to stderr and exits with status 1.
ValidatePathsStep ==
    /\ vpc = "loop"
    /\ vi <= Len(img_paths)
    /\ LET check_path == Path(img_paths[vi])
       IN  /\ checked' = Append(checked, check_path)
           /\ IF Invalid(check_path)
              THEN /\ vpc' = "exit"
                   /\ stderr' = Some(INVALID_PATHS_PROVIDED)
                   /\ exit_status' = Some(1)
                   /\ UNCHANGED <<vi, valid_paths>>
              ELSE /\ valid_paths' = Append(valid_paths, check_path)
                   /\ vi' = vi + 1
                   /\ UNCHANGED <<vpc, stderr, exit_status>>
    /\ UNCHANGED <<img_paths, fs>>
    /\ UNCHANGED cliVars

\* Line 218: return valid_paths.
ValidatePathsReturn ==
    /\ vpc = "loop"
    /\ vi > Len(img_paths)
    /\ vpc' = "returned"
    /\ UNCHANGED <<img_paths, fs, vi, valid_paths, checked, stderr, exit_status>>
    /\ UNCHANGED cliVars

(***************************************************************************)
(* Specifications                                                          *)
(***************************************************************************)
PathsIdle ==
    /\ img_paths = <<>>
    /\ fs = [p \in PathObjects |-> "missing"]
    /\ vpc = "idle"
    /\ vi = 1
    /\ valid_paths = <<>>
    /\ checked = <<>>

CliIdle ==
    /\ environ = None
    /\ argv = [flags |-> {}, positionals |-> <<>>]
    /\ pc = "idle"
    /\ args = None
    /\ sanitized = None
    /\ result = None

Init ==
    /\ environ \in EnvironValues
    /\ argv \in [flags : SUBSET FlagKeys,
                 positionals : SeqsUpTo(PositionalStrings, MaxPositionals)]
    /\ pc = "start"
    /\ args = None
    /\ sanitized = None
    /\ result = None
    /\ stderr = None
    /\ exit_status = None
    /\ PathsIdle

Next ==
    \/ ArgparseParse
    \/ SanitizeInputArgs
    \/ ReturnInputArgs

Spec == Init /\ [][Next]_vars

InitPaths ==
    /\ CliIdle
    /\ stderr = None
    /\ exit_status = None
    /\ img_paths \in SeqsUpTo(PathStrings, MaxPaths)
    /\ fs \in [PathObjects -> Kinds]
    /\ vpc = "loop"
    /\ vi = 1
    /\ valid_paths = <<>>
    /\ checked = <<>>

NextPaths ==
    \/ ValidatePathsStep
    \/ ValidatePathsReturn

SpecPaths == InitPaths /\ [][NextPaths]_vars

(***************************************************************************)
(* Vocabulary of the properties                                            *)
(***************************************************************************)
\* The size flags and the aspect-ratio flags set in the parsed mapping.
SizeSet == {k \in SizeFlags : args[1][k]}
RatioSet == {k \in RatioFlags : args[1][k]}
EqualSet == args[1][EQUAL_BORDERS]

\* sanitize_input_args has been called and has ended, normally or not.
SanitizeRan == pc \in {"sanitized", "returned"} \/ (pc = "exit" /\ args # None)
SanitizeReturned == pc \in {"sanitized", "returned"}
SanitizeFailedWith(msg) ==
    /\ pc = "exit"
    /\ args # None
    /\ stderr = Some(msg)
    /\ exit_status = Some(2)
    /\ sanitized = None
    /\ result = None

\* C1: sanitize_input_args returns normally exactly when at most one size
\* flag and at most one aspect-ratio flag are set and equal-borders is not
\* combined with an aspect-ratio flag; otherwise it ends in the parser's
\* error exit (status 2, one of the three messages) and returns no pair.
C1_ReturnsIffConsistent ==
    SanitizeRan =>
        /\ SanitizeReturned <=>
              /\ Cardinality(SizeSet) <= 1
              /\ Cardinality(RatioSet) <= 1
              /\ ~(EqualSet /\ RatioSet # {})
        /\ SanitizeReturned => sanitized # None /\ stderr = None /\ exit_status = None
        /\ ~SanitizeReturned =>
              \E msg \in {TOO_MANY_SIZE_FLAGS, TOO_MANY_ASPECT_RATIO_FLAGS,
                          EQUAL_BORDERS_WITH_ASPECT_RATIO} : SanitizeFailedWith(msg)

C1_Witness ==
    /\ SanitizeRan
    /\ ~SanitizeReturned
    /\ Cardinality(SizeSet) = 1
    /\ Cardinality(RatioSet) = 1
    /\ EqualSet

\* C2: with two or more size flags set, sanitization fails with the "too
\* many size flags" message, whatever the other flags are.
C2_TooManySizeFlags ==
    (SanitizeRan /\ Cardinality(SizeSet) >= 2) => SanitizeFailedWith(TOO_MANY_SIZE_FLAGS)

C2_Witness ==
    /\ SanitizeRan
    /\ SizeSet = {XS_BORDERS, MD_BORDERS}
    /\ EqualSet
    /\ Cardinality(RatioSet) >= 2
    /\ args[1][INSTA_OPTIMISED]
    /\ stderr = Some(TOO_MANY_SIZE_FLAGS)

\* C3 as stated: without equal-borders, two or more aspect-ratio flags fail
\* with the "too many aspect-ratio flags" message and zero or one succeeds,
\* for every flag mapping.
C3_Original ==
    (SanitizeRan /\ ~EqualSet) =>
        /\ Cardinality(RatioSet) >= 2 => SanitizeFailedWith(TOO_MANY_ASPECT_RATIO_FLAGS)
        /\ Cardinality(RatioSet) <= 1 => SanitizeReturned

\* C3 as amended: the same, for the flag mappings with at most one size
\* flag set; with two or more size flags the size message is reported.
C3_RatioFlagsGivenOneSize ==
    (SanitizeRan /\ ~EqualSet) =>
        /\ (Cardinality(SizeSet) <= 1 /\ Cardinality(RatioSet) >= 2)
              => SanitizeFailedWith(TOO_MANY_ASPECT_RATIO_FLAGS)
        /\ (Cardinality(SizeSet) <= 1 /\ Cardinality(RatioSet) <= 1)
              => SanitizeReturned
        /\ Cardinality(SizeSet) >= 2 => SanitizeFailedWith(TOO_MANY_SIZE_FLAGS)

C3_Witness ==
    /\ SanitizeRan
    /\ ~EqualSet
    /\ Cardinality(SizeSet) = 1
    /\ RatioSet = {RATIO_3_2, RATIO_16_9}
    /\ stderr = Some(TOO_MANY_ASPECT_RATIO_FLAGS)

\* C4 as stated: equal-borders with at least one aspect-ratio flag fails
\* with the incompatibility message, for every flag mapping.
C4_Original ==
    (SanitizeRan /\ EqualSet /\ RatioSet # {})
        => SanitizeFailedWith(EQUAL_BORDERS_WITH_ASPECT_RATIO)

\* C4 as amended: equal-borders with at least one aspect-ratio flag fails;
\* the message is the incompatibility message when at most one size flag is
\* set and the size message otherwise, and never the "too many aspect-ratio
\* flags" message.
C4_EqualWithRatioGivenOneSize ==
    (SanitizeRan /\ EqualSet /\ RatioSet # {}) =>
        /\ ~SanitizeReturned
        /\ stderr # Some(TOO_MANY_ASPECT_RATIO_FLAGS)
        /\ Cardinality(SizeSet) <= 1 => SanitizeFailedWith(EQUAL_BORDERS_WITH_ASPECT_RATIO)
        /\ Cardinality(SizeSet) >= 2 => SanitizeFailedWith(TOO_MANY_SIZE_FLAGS)

C4_Witness ==
    /\ SanitizeRan
    /\ EqualSet
    /\ Cardinality(RatioSet) >= 2
    /\ Cardinality(SizeSet) = 1
    /\ stderr = Some(EQUAL_BORDERS_WITH_ASPECT_RATIO)

\* C5: on a normal return the aspect ratio is the object mapped to the one
\* set aspect-ratio flag, 1:1 when none is set and equal-borders is not
\* set, and None when equal-borders is set; it is None exactly when
\* equal-borders was requested.
C5_ReturnedAspectRatio ==
    SanitizeReturned =>
        LET aspect_ratio == sanitized[1][2]
        IN  /\ \A k \in RatioSet : aspect_ratio = Some(ASPECT_RATIO_MAP[k])
            /\ (RatioSet = {} /\ ~EqualSet)
                  => aspect_ratio = Some(ASPECT_RATIO_MAP[RATIO_1_1])
            /\ EqualSet => aspect_ratio = None
            /\ aspect_ratio = None <=> EqualSet

C5_Witness ==
    /\ pc = "sanitized"
    /\ RatioSet = {RATIO_16_9}
    /\ sanitized[1][2] = Some(AspectRatio(16, 9))

\* C6: when parse_args returns, the edge size is a number (never None): the
\* value mapped to the one set size flag, no-border included, and the
\* medium value exactly when no size flag or the medium flag is set.
C6_ReturnedEdgeSize ==
    pc = "returned" =>
        LET edge_size == result[1][2].EDGE_SIZE
        IN  /\ edge_size \in {EDGE_MAP[k] : k \in SizeFlags}
            /\ \A k \in SizeSet : edge_size = EDGE_MAP[k]
            /\ edge_size = EDGE_MAP[MD_BORDERS] <=> (SizeSet = {} \/ SizeSet = {MD_BORDERS})

C6_Witness ==
    /\ pc = "returned"
    /\ SizeSet = {DISABLE_BORDERS}
    /\ result[1][2].EDGE_SIZE = EDGE_MAP[DISABLE_BORDERS]

\* C9: the image path list parse_args returns is the positional paths in
\* command-line order when one is given, [POLAROID_PATH] when none is given
\* and the variable is set and non-empty; with no positional and the
\* variable unset or empty, parsing ends in the error exit.
C9_ReturnedImagePaths ==
    /\ pc = "returned" =>
          LET image_paths == result[1][1]
          IN  /\ argv.positionals # <<>> => image_paths = argv.positionals
              /\ argv.positionals = <<>> =>
                    /\ environ \notin {None, Some("")}
                    /\ image_paths = <<environ[1]>>
    /\ (argv.positionals = <<>> /\ environ \in {None, Some("")}) =>
          /\ pc \in {"start", "exit"}
          /\ args = None
          /\ result = None
          /\ pc = "exit" => exit_status = Some(2) /\ stderr = Some(ARGUMENTS_REQUIRED)

C9_Witness ==
    /\ pc = "returned"
    /\ argv.positionals = <<>>
    /\ environ = Some("/tmp/photos")
    /\ result[1][1] = <<"/tmp/photos">>

\* C10: two flag mappings that differ only in the instagram flag have the
\* same outcome of sanitize_input_args (the same error, or the same
\* edge_size and aspect_ratio), and parse_args returns the flag unchanged.
C10_InstagramIndependent ==
    args # None =>
        LET a == args[1]
            b == [a EXCEPT ![INSTA_OPTIMISED] = ~@]
            rb == sanitize_input_args(b)
        IN  /\ sanitize_input_args(a) = rb
            /\ SanitizeReturned =>
                  NoError(rb) /\ sanitized = Some(<<rb.edge_size, rb.aspect_ratio>>)
            /\ (SanitizeRan /\ ~SanitizeReturned) => stderr = rb.error
            /\ pc = "returned" =>
                  /\ result[1][2].INSTA_OPTIMISED = a[INSTA_OPTIMISED]
                  /\ result[1][2].INSTA_OPTIMISED = (INSTA_OPTIMISED \in argv.flags)
                  /\ result[1][2].EDGE_SIZE = EdgeSizeOrDefault(rb.edge_size)
                  /\ result[1][2].ASPECT_RATIO = rb.aspect_ratio

C10_Witness ==
    /\ pc = "returned"
    /\ INSTA_OPTIMISED \in argv.flags
    /\ result[1][2].INSTA_OPTIMISED
    /\ SizeSet = {LG_BORDERS}

\* The paths of the list that validate_paths rejects, by index.
InvalidIndexes == {i \in 1..Len(img_paths) : Invalid(Path(img_paths[i]))}
FirstInvalid == CHOOSE i \in InvalidIndexes : \A j \in InvalidIndexes : i <= j

\* C7: when some path is neither a file nor a directory, validate_paths
\* never returns; it exits with the "invalid paths provided" message and a
\* non-zero status at the first such path, and no later path is checked.
C7_ExitsAtFirstInvalid ==
    (vpc # "idle" /\ InvalidIndexes # {}) =>
        /\ vpc # "returned"
        /\ vi <= FirstInvalid
        /\ Len(checked) <= FirstInvalid
        /\ \A j \in 1..Len(checked) : checked[j] = Path(img_paths[j])
        /\ vpc = "exit" =>
              /\ stderr = Some(INVALID_PATHS_PROVIDED)
              /\ exit_status # None /\ exit_status[1] # 0
              /\ Len(checked) = FirstInvalid

C7_Witness ==
    /\ vpc = "exit"
    /\ img_paths = <<"missing.jpg", "./exists.jpg">>
    /\ fs[Path("exists.jpg")] = "file"
    /\ checked = <<Path("missing.jpg")>>

\* C8: when every path is an existing file or directory, validate_paths
\* does not exit and returns a list of the same length whose i-th element
\* is the Path built from the i-th string.
C8_ReturnsPathsInOrder ==
    (vpc # "idle" /\ InvalidIndexes = {}) =>
        /\ vpc # "exit"
        /\ stderr = None
        /\ vpc = "returned" =>
              /\ Len(valid_paths) = Len(img_paths)
              /\ \A i \in 1..Len(img_paths) : valid_paths[i] = Path(img_paths[i])

C8_Witness ==
    /\ vpc = "returned"
    /\ img_paths = <<"photos", "./exists.jpg">>
    /\ fs[Path("photos")] = "dir"
    /\ valid_paths = <<Path("photos"), Path("exists.jpg")>>

====
